---- MODULE Spec2Model ----
(***************************************************************************)
(* SprintSync backend: the task status state machine, the time-ledger      *)
(* reconciliation done by updateTaskStatus, and the manual time logger     *)
(* logTime, the reports of getTimeTracked and the routes that write the     *)
(* users table, over the SQLite tables tasks, time_logs and users.         *)
(*                                                                         *)
(* Every SQL statement is one atomic step of the store; a handler that     *)
(* issues several statements is a sequence of steps, one per statement,    *)
(* and steps of different requests interleave (the handlers are callback   *)
(* chains on one shared sqlite3 handle, no transaction is open).  A PATCH  *)
(* status or POST time handler returns to the event loop once its first    *)
(* statement is issued, so the arrival of the request is a step of its own *)
(* and its statements run in later steps.  The two statements of logTime   *)
(* are issued inside db.serialize: they start only when no statement is    *)
(* pending, which keeps them out of the chain of a PATCH from the callback *)
(* of its db.get on, and in the order in which the calls arrived.          *)
(*                                                                         *)
(* The store is SQLite as src/config/database.js sets it up: foreign keys  *)
(* are not enforced, and a statement fails exactly when it names a column  *)
(* its table does not have.  Transient storage errors are not modelled,    *)
(* except the failure of the listing query behind getDailyPlan.            *)
(***************************************************************************)
EXTENDS Integers, Sequences, FiniteSets, TLC

\* ------------------------------------------------------------------ bounds
MaxReq == 2          \* requests issued in one behaviour of Spec
MaxConcReq == 3      \* requests issued in one behaviour of SpecConc
MaxNow == 2          \* the last instant the clock reaches

\* ------------------------------------------------------------ input domains
\* the ids uuidv4() hands to register
Users == {"u1", "u2"}

\* the literal list of src/controllers/taskController.js:363
Statuses == {"todo", "in_progress", "done"}

\* request bodies tried against PATCH /:id/status
StatusInputs == Statuses \cup {"archived"}

\* estimates given to createTask
EstimateInputs == {-1, 0, 30}

\* lengths of the titles given to PUT /:id
TitleLengths == {0, 1}

\* minutes tried against POST /:id/time: the edges of the accepted range in
\* Spec, the half hour of the concurrent calls in SpecConc
MinutesInputs == {0, 1, 1440, 1441}
ConcMinutes == {30}

\* the identifiers uuidv4() can hand to createTask, and the identifiers of
\* no task at all that a request can still name
TaskIds == {"t1"}
MissingIds == {"t0"}

\* the identifiers uuidv4() can hand to createTask where two users log time
ReportTaskIds == {"t1", "t2"}

\* the usernames given to PUT /users/:id, the registrations that are followed
\* (the id uuidv4() hands out and the username given), and the places of the
\* usernames, those of seedDatabase among them, in the collation of
\* ORDER BY u.username
Names == {"aaa", "zed"}
Registrations == {<<"u1", "zed">>, <<"u2", "amy">>}
Collation == [aaa |-> 1, admin |-> 2, amy |-> 3, john_engineer |-> 4,
              sarah_dev |-> 5, zed |-> 6]

\* ------------------------------------------------------------------ schema
\* columns of CREATE TABLE time_logs
time_logs_columns == {"id", "task_id", "user_id", "minutes", "logged_at"}

\* the instant at which the server starts
Today == 1

\* no GET /time-tracking has been answered yet
NoReply == [user |-> "none"]

\* result of a db.get that matches no row
NoRow == [status |-> "none", total_minutes |-> 0, user_id |-> "none"]

VARIABLES
    tasks,       \* table tasks: task id -> [status, total_minutes, user_id]
    time_logs,   \* table time_logs: set of rows, a row maps its non-NULL columns
    reqs,        \* the requests issued so far, in arrival order
    created,     \* history: task id -> the total_minutes its row was created with
    users,       \* table users: user id -> username
    reply,       \* the response to a GET /time-tracking that is being sent
    now,         \* the clock: the instant new Date() returns
    registered,  \* history: the user ids register has handed out
    seed         \* the run of the seed script: its next statement and its clock reading

vars == <<tasks, time_logs, reqs, created, users, reply, now, registered, seed>>

\* ------------------------------------------------------------- SQL helpers
\* a statement that names a column the table does not have fails to prepare
SqlPrepares(columns) == columns \subseteq time_logs_columns

\* is_auto_logged = 1 of a stored row (a column that was not set is NULL)
IsAutoLogged(row) == "is_auto_logged" \in DOMAIN row /\ row["is_auto_logged"] = 1

\* SELECT status, total_minutes FROM tasks WHERE id = ? AND user_id = ?
SelectTask(tbl, id, userId) ==
    IF id \in DOMAIN tbl /\ tbl[id].user_id = userId THEN tbl[id] ELSE NoRow

\* this.changes of an UPDATE tasks ... WHERE id = ? AND user_id = ?
Changes(tbl, id, userId) ==
    IF id \in DOMAIN tbl /\ tbl[id].user_id = userId THEN 1 ELSE 0

\* the UPDATE also clearing the minutes of a task that leaves done
SetStatus_clearsTotal(tbl, id, userId, status) ==
    IF id \in DOMAIN tbl /\ tbl[id].user_id = userId
    THEN [tbl EXCEPT ![id].status = status,
                     ![id].total_minutes =
                         IF tbl[id].status = "done" /\ status # "done" THEN 0 ELSE @]
    ELSE tbl

\* the UPDATE refusing to move a task out of done
SetStatus_doneIsFinal(tbl, id, userId, status) ==
    IF id \in DOMAIN tbl /\ tbl[id].user_id = userId /\ tbl[id].status # "done"
    THEN [tbl EXCEPT ![id].status = status]
    ELSE tbl

\* UPDATE tasks SET status = ?, updated_at = ? WHERE id = ? AND user_id = ?
SetStatus(tbl, id, userId, status) ==
    IF Changes(tbl, id, userId) = 1
    THEN [tbl EXCEPT ![id].status = status]
    ELSE tbl

\* the increment written as SET total_minutes = ?
AddMinutes_overwrites(tbl, id, userId, minutes) ==
    IF id \in DOMAIN tbl /\ tbl[id].user_id = userId
    THEN [tbl EXCEPT ![id].total_minutes = minutes]
    ELSE tbl

\* UPDATE tasks SET total_minutes = total_minutes + ?, updated_at = ?
\*   WHERE id = ? AND user_id = ?
AddMinutes(tbl, id, userId, minutes) ==
    IF Changes(tbl, id, userId) = 1
    THEN [tbl EXCEPT ![id].total_minutes = @ + minutes]
    ELSE tbl

\* INSERT INTO time_logs (<DOMAIN row>) VALUES (...)
InsertTimeLog(logs, row) ==
    IF SqlPrepares(DOMAIN row)
    THEN [err |-> FALSE, rows |-> logs \cup {row}]
    ELSE [err |-> TRUE, rows |-> logs]

\* the DELETE written without its is_auto_logged = 1
DeleteAutoLogs_anyEntry(logs, id, userId) ==
    IF SqlPrepares({"task_id", "user_id"})
    THEN [err |-> FALSE,
          rows |-> {row \in logs : ~(row.task_id = id /\ row.user_id = userId)}]
    ELSE [err |-> TRUE, rows |-> logs]

\* DELETE FROM time_logs WHERE task_id = ? AND user_id = ? AND is_auto_logged = 1
DeleteAutoLogs(logs, id, userId) ==
    IF SqlPrepares({"task_id", "user_id", "is_auto_logged"})
    THEN [err |-> FALSE,
          rows |-> {row \in logs :
                      ~(row.task_id = id /\ row.user_id = userId /\ IsAutoLogged(row))}]
    ELSE [err |-> TRUE, rows |-> logs]

\* ------------------------------------------------------------- validation
\* body('status').isIn(['todo', 'in_progress', 'done'])
validateStatus(status) == status \in {"todo", "in_progress", "done"}

\* the validator written without its upper limit
validateTimeLog_noMax(minutes) == minutes \in Int /\ minutes >= 1

\* body('minutes').isInt({ min: 1, max: 1440 })
validateTimeLog(minutes) == minutes \in Int /\ minutes >= 1 /\ minutes <= 1440

\* ------------------------------------------------------------ the requests
NewRequest(op, userId, id, status, minutes) ==
    [op |-> op, user |-> userId, id |-> id, status |-> status, minutes |-> minutes,
     pc |-> "start", code |-> 0,
     previousStatus |-> "none", estimatedMinutes |-> 0,
     statusAtWrite |-> "none", totalAtWrite |-> 0, changes |-> 0,
     reconcile |-> "none", reconcileErr |-> FALSE,
     autoTimeLogged |-> FALSE, autoTimeRemoved |-> FALSE, now |-> 0,
     queued |-> FALSE,
     after |-> {i \in 1..Len(reqs) : reqs[i].pc = "done"}]

\* res.status(code).json(...) ending the handler
Respond(r, code) == [r EXCEPT !.code = code, !.pc = "done"]

\* 400 { error: 'Invalid status value' } / the route's 'Validation failed'
InvalidStatus(r) == Respond(r, 400)

\* the missing task reported as a storage failure
TaskNotFound_as500(r) == Respond(r, 500)

\* 404 { error: 'Task not found' } of updateTaskStatus
TaskNotFound(r) == Respond(r, 404)

\* 400 { error: 'Valid minutes value is required' } / the route's 'Validation failed'
InvalidInput(r) == Respond(r, 400)

\* 404 { error: 'Task not found' } of logTime
TimeTaskNotFound(r) == Respond(r, 404)

\* timeLogId = uuidv4(): a request creates at most one row, so the number of
\* the request stands for the fresh identifier
Uuid(i) == i

\* -------------------------------------------------------------- createTask
\* createTask written without its check of total_minutes
ValidTotalMinutes_unchecked(total_minutes) == TRUE

\* the check of total_minutes in createTask
ValidTotalMinutes(total_minutes) == ~(total_minutes < 0)

\* initialTotalMinutes = total_minutes || 0
InitialTotalMinutes(total_minutes) == IF total_minutes = 0 THEN 0 ELSE total_minutes

\* POST /: validateTask, the handler's checks, then INSERT INTO tasks (...),
\* with uuidv4() drawing the id of the task from ids
CreateTaskIn(ids, userId, total_minutes, status) ==
    /\ validateStatus(status)
    /\ ValidTotalMinutes(total_minutes)
    /\ \E taskId \in ids \ DOMAIN created :
          /\ tasks' = [id \in DOMAIN tasks \cup {taskId} |->
                      IF id = taskId
                      THEN [status |-> status,
                            total_minutes |-> InitialTotalMinutes(total_minutes),
                            user_id |-> userId]
                      ELSE tasks[id]]
          /\ created' = [id \in DOMAIN created \cup {taskId} |->
                      IF id = taskId THEN InitialTotalMinutes(total_minutes)
                      ELSE created[id]]
    /\ UNCHANGED <<time_logs, reqs, users, reply, now, registered, seed>>

\* POST / when uuidv4() draws from TaskIds
CreateTask(userId, total_minutes, status) ==
    CreateTaskIn(TaskIds, userId, total_minutes, status)

\* -------------------------------------------------------- updateTaskStatus
\* the test written without its look at the previous status
ShouldAutoLog_anyPrevious(status, previousStatus, estimatedMinutes) ==
    status = "done" /\ estimatedMinutes > 0

\* the test guarding the INSERT of the auto entry
ShouldAutoLog(status, previousStatus, estimatedMinutes) ==
    status = "done" /\ previousStatus # "done" /\ estimatedMinutes > 0

\* the test guarding the DELETE of the auto entries
ShouldAutoRemove(status, previousStatus) ==
    (status = "in_progress" \/ status = "todo") /\ previousStatus = "done"

\* the flag computed from the outcome of the INSERT instead of the attempt
autoTimeLogged_ifCommitted(status, previousStatus, estimatedMinutes) ==
    /\ status = "done" /\ previousStatus # "done" /\ estimatedMinutes > 0
    /\ SqlPrepares({"id", "task_id", "user_id", "minutes", "logged_at", "is_auto_logged"})

\* autoTimeLogged of the response body
autoTimeLogged(status, previousStatus, estimatedMinutes) ==
    status = "done" /\ previousStatus # "done" /\ estimatedMinutes > 0

\* autoTimeRemoved of the response body
autoTimeRemoved(status, previousStatus) ==
    (status = "in_progress" \/ status = "todo") /\ previousStatus = "done"

\* estimatedMinutes = currentTask.total_minutes || 0
EstimatedMinutes(total_minutes) == IF total_minutes = 0 THEN 0 ELSE total_minutes

\* the row of the INSERT issued when a task enters done
AutoLogRow(timeLogId, id, userId, estimatedMinutes, logged_at) ==
    [id |-> timeLogId, task_id |-> id, user_id |-> userId,
     minutes |-> estimatedMinutes, logged_at |-> logged_at, is_auto_logged |-> 1]

\* PATCH /:id/status: route validation, the handler's own check, then
\* db.get is issued and the handler returns to the event loop
StatusArrives(userId, id, status, limit) ==
    /\ Len(reqs) < limit
    /\ LET r == NewRequest("status", userId, id, status, 0)
       IN  reqs' = Append(reqs,
                 IF ~validateStatus(status) THEN InvalidStatus(r)
                 ELSE IF status \notin Statuses THEN InvalidStatus(r)
                 ELSE [r EXCEPT !.pc = "select"])
    /\ UNCHANGED <<tasks, time_logs, created, users, reply, now, registered, seed>>

\* the SELECT of db.get runs and its callback reads the current status and
\* total_minutes: 404 when there is no row, else the UPDATE is issued
StatusSelect(i) ==
    /\ reqs[i].op = "status" /\ reqs[i].pc = "select"
    /\ LET r == reqs[i]
           currentTask == SelectTask(tasks, r.id, r.user)
       IN  reqs' = [reqs EXCEPT ![i] =
                 IF currentTask = NoRow THEN TaskNotFound(r)
                 ELSE [r EXCEPT !.previousStatus = currentTask.status,
                                !.estimatedMinutes =
                                    EstimatedMinutes(currentTask.total_minutes),
                                !.pc = "update"]]
    /\ UNCHANGED <<tasks, time_logs, created, users, reply, now, registered, seed>>

\* the UPDATE of the status and its callback: the ledger statement is
\* issued, and the response is sent without waiting for it
StatusUpdate(i) ==
    /\ reqs[i].op = "status" /\ reqs[i].pc = "update"
    /\ LET r == reqs[i]
           changes == Changes(tasks, r.id, r.user)
           seen == IF r.id \in DOMAIN tasks THEN tasks[r.id].status ELSE "none"
           total == IF r.id \in DOMAIN tasks THEN tasks[r.id].total_minutes ELSE 0
           w == [r EXCEPT !.changes = changes, !.statusAtWrite = seen,
                          !.totalAtWrite = total]
       IN  /\ tasks' = SetStatus(tasks, r.id, r.user, r.status)
           /\ reqs' = [reqs EXCEPT ![i] =
                 IF changes = 0 THEN TaskNotFound(w)
                 ELSE [w EXCEPT
                         !.code = 200,
                         !.autoTimeLogged =
                             autoTimeLogged(r.status, r.previousStatus, r.estimatedMinutes),
                         !.autoTimeRemoved =
                             autoTimeRemoved(r.status, r.previousStatus),
                         !.now =
                             IF ShouldAutoLog(r.status, r.previousStatus, r.estimatedMinutes)
                             THEN now ELSE @,
                         !.reconcile =
                             IF ShouldAutoLog(r.status, r.previousStatus, r.estimatedMinutes)
                             THEN "insert"
                             ELSE IF ShouldAutoRemove(r.status, r.previousStatus)
                             THEN "delete" ELSE "none",
                         !.pc =
                             IF \/ ShouldAutoLog(r.status, r.previousStatus, r.estimatedMinutes)
                                \/ ShouldAutoRemove(r.status, r.previousStatus)
                             THEN "reconcile" ELSE "done"]]
    /\ UNCHANGED <<time_logs, created, users, reply, now, registered, seed>>

\* the INSERT or DELETE on time_logs runs; an error is logged and dropped
StatusReconcile(i) ==
    /\ reqs[i].op = "status" /\ reqs[i].pc = "reconcile"
    /\ LET r == reqs[i]
           out == IF r.reconcile = "insert"
                  THEN InsertTimeLog(time_logs,
                           AutoLogRow(Uuid(i), r.id, r.user, r.estimatedMinutes, r.now))
                  ELSE DeleteAutoLogs(time_logs, r.id, r.user)
       IN  /\ time_logs' = out.rows
           /\ reqs' = [reqs EXCEPT ![i] = [r EXCEPT !.reconcileErr = out.err,
                                                    !.pc = "done"]]
    /\ UNCHANGED <<tasks, created, users, reply, now, registered, seed>>

\* ------------------------------------------------------------------ logTime
\* the handler's own check of minutes
InvalidMinutes(minutes) == minutes = 0 \/ minutes <= 0

\* the row of the INSERT issued by logTime
ManualLogRow(timeLogId, id, userId, minutes, logged_at) ==
    [id |-> timeLogId, task_id |-> id, user_id |-> userId,
     minutes |-> minutes, logged_at |-> logged_at]

\* a request that has a statement of its own issued and not yet answered
\* (the database counts it as pending, or holds it in its queue): the
\* statements of a PATCH and of logTime, and the db.all behind a daily plan
InFlight(j) == reqs[j].pc \in {"select", "update", "reconcile", "insert", "list"}

\* a statement of a recorded request or the db.all of a report is on the
\* shared handle, issued and with its callback not yet returned
Pending == (\E j \in 1..Len(reqs) : InFlight(j)) \/ reply # NoReply

\* a PATCH between the callback of its db.get and the end of its chain: each
\* callback issues the next statement before its own statement retires, so
\* the database has a statement pending all along
Chained(j) == reqs[j].op = "status" /\ reqs[j].pc \in {"update", "reconcile"}

\* db.serialize: a statement issued inside it while another is pending is
\* queued as exclusive; it starts when nothing is pending (no PATCH is in its
\* chain, no report waits for its callback), behind the statements of the
\* calls of logTime that came before it. (A PATCH or daily plan whose first
\* statement has not run may itself wait behind these statements, so it
\* holds none of them back.)
Exclusive(i) ==
    /\ \A j \in 1..Len(reqs) : ~Chained(j)
    /\ reply = NoReply
    /\ \A j \in 1..(i - 1) : reqs[j].op = "time" => reqs[j].pc = "done"

\* POST /:id/time: validateTimeLog, the handler's own check, the clock is
\* read, and db.serialize issues the INSERT (started at once when nothing is
\* pending, queued otherwise) and the UPDATE (queued behind the INSERT); the
\* handler returns before either has run.  busy: a statement of a handler
\* that is one step here (createTask, updateTask, deleteTask, the routes on
\* users) is pending on the handle when the call arrives
TimeArrives(userId, id, minutes, limit) ==
    /\ Len(reqs) < limit
    /\ \E busy \in BOOLEAN :
          LET r == NewRequest("time", userId, id, "none", minutes)
          IN  reqs' = Append(reqs,
                    IF ~validateTimeLog(minutes) THEN InvalidInput(r)
                    ELSE IF InvalidMinutes(minutes) THEN InvalidInput(r)
                    ELSE [r EXCEPT !.pc = "insert", !.now = now,
                                   !.queued = busy \/ Pending])
    /\ UNCHANGED <<tasks, time_logs, created, users, reply, now, registered, seed>>

\* first statement: the INSERT, issued without a callback
TimeInsert(i) ==
    /\ reqs[i].op = "time" /\ reqs[i].pc = "insert"
    /\ reqs[i].queued => Exclusive(i)
    /\ LET r == reqs[i]
       IN  /\ time_logs' =
                 InsertTimeLog(time_logs,
                     ManualLogRow(Uuid(i), r.id, r.user, r.minutes, r.now)).rows
           /\ reqs' = [reqs EXCEPT ![i] = [r EXCEPT !.pc = "update"]]
    /\ UNCHANGED <<tasks, created, users, reply, now, registered, seed>>

\* second statement: the UPDATE of total_minutes and its callback
TimeUpdate(i) ==
    /\ reqs[i].op = "time" /\ reqs[i].pc = "update"
    /\ Exclusive(i)
    /\ LET r == reqs[i]
           changes == Changes(tasks, r.id, r.user)
           w == [r EXCEPT !.changes = changes]
       IN  /\ tasks' = AddMinutes(tasks, r.id, r.user, r.minutes)
           /\ reqs' = [reqs EXCEPT ![i] =
                 IF changes = 0 THEN TimeTaskNotFound(w) ELSE Respond(w, 200)]
    /\ UNCHANGED <<time_logs, created, users, reply, now, registered, seed>>

\* ------------------------------------------------------------------ users
\* POST /auth/register: INSERT INTO users with a fresh uuidv4(); a username
\* that is taken fails on UNIQUE (409) and stores nothing
Register(id, name) ==
    /\ id \notin registered
    /\ \A u \in DOMAIN users : users[u] # name
    /\ users' = [u \in DOMAIN users \cup {id} |-> IF u = id THEN name ELSE users[u]]
    /\ registered' = registered \cup {id}
    /\ UNCHANGED <<tasks, time_logs, reqs, created, reply, now, seed>>

\* PUT /users/:id with a username: UPDATE users SET username = ? WHERE id = ?;
\* no row (404) or a username another row has (409) changes nothing
UpdateUser(id, name) ==
    /\ id \in DOMAIN users
    /\ \A u \in DOMAIN users \ {id} : users[u] # name
    /\ users' = [users EXCEPT ![id] = name]
    /\ UNCHANGED <<tasks, time_logs, reqs, created, reply, now, registered, seed>>

\* DELETE /users/:id: DELETE FROM users WHERE id = ?
DeleteUser(id) ==
    /\ users' = [u \in DOMAIN users \ {id} |-> users[u]]
    /\ UNCHANGED <<tasks, time_logs, reqs, created, reply, now, registered, seed>>

\* the ids that uuidv4() hands to seedDatabase
adminId == "adminId"
userId1 == "userId1"
userId2 == "userId2"
taskId1 == "taskId1"
taskId2 == "taskId2"
taskId3 == "taskId3"
taskId4 == "taskId4"
timeLogId1 == -1
timeLogId2 == -2
timeLogId3 == -3

\* the rows seedDatabase inserts, in the order of its INSERTs
SeedUsers ==
    <<[id |-> adminId, username |-> "admin"],
      [id |-> userId1, username |-> "john_engineer"],
      [id |-> userId2, username |-> "sarah_dev"]>>
SeedTasks ==
    <<[id |-> taskId1, status |-> "done", total_minutes |-> 240, user_id |-> userId1],
      [id |-> taskId2, status |-> "in_progress", total_minutes |-> 180, user_id |-> userId1],
      [id |-> taskId3, status |-> "todo", total_minutes |-> 0, user_id |-> userId2],
      [id |-> taskId4, status |-> "todo", total_minutes |-> 0, user_id |-> userId2]>>
SeedTimeLogs(logged_at) ==
    <<ManualLogRow(timeLogId1, taskId1, userId1, 120, logged_at),
      ManualLogRow(timeLogId2, taskId1, userId1, 120, logged_at),
      ManualLogRow(timeLogId3, taskId2, userId1, 180, logged_at)>>

\* the statements of the script: 3 DELETEs, then the INSERTs
SeedDeletes == 3
SeedStatements == SeedDeletes + Len(SeedUsers) + Len(SeedTasks) + Len(SeedTimeLogs(0))

\* no seed script is running, or has run
NotSeeding == [pc |-> 0, now |-> 0]

\* npm run seed: the script hashes the passwords, draws its ids, reads the
\* clock and queues its statements in db.serialize; none has run yet.  Every
\* run draws new ids, and one run is followed here
seedDatabase ==
    /\ seed = NotSeeding
    /\ seed' = [pc |-> 1, now |-> now]
    /\ UNCHANGED <<tasks, time_logs, reqs, created, users, reply, now, registered>>

\* INSERT INTO users (...) of the script; a username that is taken fails on
\* UNIQUE, and the script has no callback that would see it
SeedInsertUser(tbl, row) ==
    IF \E u \in DOMAIN tbl : tbl[u] = row.username THEN tbl
    ELSE [u \in DOMAIN tbl \cup {row.id} |->
             IF u = row.id THEN row.username ELSE tbl[u]]

\* INSERT INTO tasks (...) of the script
SeedInsertTask(tbl, row) ==
    [id \in DOMAIN tbl \cup {row.id} |->
        IF id = row.id
        THEN [status |-> row.status, total_minutes |-> row.total_minutes,
              user_id |-> row.user_id]
        ELSE tbl[id]]

\* the next statement of the script runs; the statements commit one by one,
\* in a process of its own beside the server
SeedStatement ==
    /\ seed.pc \in 1..SeedStatements
    /\ seed' = [seed EXCEPT !.pc = @ + 1]
    /\ LET k == seed.pc
           nu == Len(SeedUsers)
           nt == Len(SeedTasks)
       IN  /\ time_logs' =
                 IF k = 1 THEN {}
                 ELSE IF k > SeedDeletes + nu + nt
                 THEN InsertTimeLog(time_logs,
                          SeedTimeLogs(seed.now)[k - SeedDeletes - nu - nt]).rows
                 ELSE time_logs
           /\ tasks' =
                 IF k = 2 THEN << >>
                 ELSE IF k > SeedDeletes + nu /\ k <= SeedDeletes + nu + nt
                 THEN SeedInsertTask(tasks, SeedTasks[k - SeedDeletes - nu])
                 ELSE tasks
           /\ users' =
                 IF k = 3 THEN << >>
                 ELSE IF k > SeedDeletes /\ k <= SeedDeletes + nu
                 THEN SeedInsertUser(users, SeedUsers[k - SeedDeletes])
                 ELSE users
           /\ created' =
                 IF k > SeedDeletes + nu /\ k <= SeedDeletes + nu + nt
                 THEN LET row == SeedTasks[k - SeedDeletes - nu]
                      IN  [id \in DOMAIN created \cup {row.id} |->
                              IF id = row.id THEN row.total_minutes ELSE created[id]]
                 ELSE created
    /\ UNCHANGED <<reqs, reply, now, registered>>

\* ---------------------------------------------------------- specifications
Init ==
    /\ tasks = << >>
    /\ time_logs = {}
    /\ reqs = << >>
    /\ created = << >>
    /\ users = << >>
    /\ reply = NoReply
    /\ now = Today
    /\ registered = {}
    /\ seed = NotSeeding

Steps ==
    \/ \E i \in 1..Len(reqs) : StatusSelect(i)
    \/ \E i \in 1..Len(reqs) : StatusUpdate(i)
    \/ \E i \in 1..Len(reqs) : StatusReconcile(i)
    \/ \E i \in 1..Len(reqs) : TimeInsert(i)
    \/ \E i \in 1..Len(reqs) : TimeUpdate(i)

\* users register, and any registered user asks anything about the created
\* tasks and about a missing one
Next ==
    \/ \E x \in Registrations : Register(x[1], x[2])
    \/ \E u \in DOMAIN users, m \in EstimateInputs, s \in Statuses : CreateTask(u, m, s)
    \/ \E u \in DOMAIN users, id \in DOMAIN tasks \cup MissingIds, s \in StatusInputs :
          StatusArrives(u, id, s, MaxReq)
    \/ \E u \in DOMAIN users, id \in DOMAIN tasks \cup MissingIds, m \in MinutesInputs :
          TimeArrives(u, id, m, MaxReq)
    \/ Steps

Spec == Init /\ [][Next]_vars

\* the owner of a task issues valid requests on it, concurrently
NextConc ==
    \/ \E x \in Registrations : Register(x[1], x[2])
    \/ \E u \in DOMAIN users, m \in EstimateInputs, s \in Statuses : CreateTask(u, m, s)
    \/ \E id \in DOMAIN tasks, s \in Statuses :
          StatusArrives(tasks[id].user_id, id, s, MaxConcReq)
    \/ \E id \in DOMAIN tasks, m \in ConcMinutes :
          TimeArrives(tasks[id].user_id, id, m, MaxConcReq)
    \/ Steps

SpecConc == Init /\ [][NextConc]_vars

\* ---------------------------------------------------------------- updateTask
\* validateTask of the route: a title of 1 to 200 characters, and a status, if
\* one is given, of the enumeration
validateTask(titleLength, status) ==
    /\ titleLength >= 1 /\ titleLength <= 200
    /\ (status = "absent" \/ status \in {"todo", "in_progress", "done"})

\* UPDATE tasks SET title = ?, status = ?, updated_at = ? WHERE id = ? AND user_id = ?
\* (status = ? is in the list only when the body has a status)
PutFields(tbl, id, userId, status) ==
    IF id \in DOMAIN tbl /\ tbl[id].user_id = userId /\ status # "absent"
    THEN [tbl EXCEPT ![id].status = status]
    ELSE tbl

\* PUT /:id: validateTask, the handler's checks, the one UPDATE; no statement
\* on time_logs is issued
UpdateTask(userId, id, titleLength, status) ==
    /\ validateTask(titleLength, status)
    /\ ~(titleLength = 0 /\ status = "absent")
    /\ (status = "absent" \/ status \in Statuses)
    /\ tasks' = PutFields(tasks, id, userId, status)
    /\ UNCHANGED <<time_logs, reqs, created, users, reply, now, registered, seed>>

\* the routes of Spec and the general update of a task
NextApi ==
    \/ Next
    \/ \E u \in DOMAIN users, id \in DOMAIN tasks \cup MissingIds, n \in TitleLengths,
          s \in Statuses \cup {"absent"} : UpdateTask(u, id, n, s)

SpecApi == Init /\ [][NextApi]_vars

\* -------------------------------------------------------------- deleteTask
\* DELETE FROM tasks WHERE id = ? AND user_id = ?
DeleteTaskRow(tbl, id, userId) ==
    IF Changes(tbl, id, userId) = 1
    THEN [x \in DOMAIN tbl \ {id} |-> tbl[x]]
    ELSE tbl

\* the handler deleting the entries of the task along with its row
DeleteTask_withEntries(userId, id) ==
    /\ tasks' = DeleteTaskRow(tasks, id, userId)
    /\ time_logs' = IF Changes(tasks, id, userId) = 1
                    THEN {row \in time_logs : row.task_id # id}
                    ELSE time_logs
    /\ UNCHANGED <<reqs, created, users, reply, now, registered, seed>>

\* DELETE /:id: the one DELETE; no statement on time_logs is issued
DeleteTask(userId, id) ==
    /\ tasks' = DeleteTaskRow(tasks, id, userId)
    /\ UNCHANGED <<time_logs, reqs, created, users, reply, now, registered, seed>>

\* users register, tasks are created and deleted, and any registered user
\* asks anything about the tasks that exist, about the deleted ones and about
\* a missing one
NextDelete ==
    \/ \E x \in Registrations : Register(x[1], x[2])
    \/ \E u \in DOMAIN users, m \in EstimateInputs, s \in Statuses : CreateTask(u, m, s)
    \/ \E u \in DOMAIN users, id \in DOMAIN created \cup MissingIds, s \in StatusInputs :
          StatusArrives(u, id, s, MaxReq)
    \/ \E u \in DOMAIN users, id \in DOMAIN created \cup MissingIds, m \in MinutesInputs :
          TimeArrives(u, id, m, MaxReq)
    \/ Steps
    \/ \E u \in DOMAIN users, id \in DOMAIN created \cup MissingIds : DeleteTask(u, id)

SpecDelete == Init /\ [][NextDelete]_vars

\* ------------------------------------------------------------ getTimeTracked
\* an instant counts half days: instant 1 is on day 0, instants 2 and 3 on day 1
DayLength == 2

\* DATE(logged_at)
DATE(logged_at) == logged_at \div DayLength

\* SUM(minutes) over the rows of a group
RECURSIVE SUM(_)
SUM(rows) ==
    IF rows = {} THEN 0
    ELSE LET row == CHOOSE x \in rows : TRUE
         IN  row.minutes + SUM(rows \ {row})

\* ORDER BY ... DESC of a set of numbers
RECURSIVE OrderDesc(_)
OrderDesc(S) ==
    IF S = {} THEN << >>
    ELSE LET m == CHOOSE x \in S : \A y \in S : y <= x
         IN  <<m>> \o OrderDesc(S \ {m})

\* ORDER BY u.username of the users of one date (usernames are UNIQUE)
RECURSIVE OrderByUsername(_, _)
OrderByUsername(S, usrs) ==
    IF S = {} THEN << >>
    ELSE LET m == CHOOSE x \in S :
                     \A y \in S : Collation[usrs[x]] <= Collation[usrs[y]]
         IN  <<m>> \o OrderByUsername(S \ {m}, usrs)

\* the self query read without its WHERE user_id = ?
SelfQuery_allUsers(logs, userId) ==
    LET Group(d) == {row \in logs : DATE(row.logged_at) = d}
        order == OrderDesc({DATE(row.logged_at) : row \in logs})
    IN  [k \in 1..Len(order) |->
            [date |-> order[k],
             total_minutes |-> SUM(Group(order[k])),
             log_count |-> Cardinality(Group(order[k]))]]

\* SELECT DATE(logged_at) as date, SUM(minutes) as total_minutes,
\*   COUNT(*) as log_count FROM time_logs WHERE user_id = ?
\*   GROUP BY DATE(logged_at) ORDER BY date DESC
SelfQuery(logs, userId) ==
    LET mine == {row \in logs : row.user_id = userId}
        Group(d) == {row \in mine : DATE(row.logged_at) = d}
        order == OrderDesc({DATE(row.logged_at) : row \in mine})
    IN  [k \in 1..Len(order) |->
            [date |-> order[k],
             total_minutes |-> SUM(Group(order[k])),
             log_count |-> Cardinality(Group(order[k]))]]

\* the rows of one date of the admin query, ORDER BY u.username
AdminRowsOfDate(joined, usrs, d) ==
    LET onDate == {row \in joined : DATE(row.logged_at) = d}
        Group(u) == {row \in onDate : row.user_id = u}
        order == OrderByUsername({row.user_id : row \in onDate}, usrs)
    IN  [k \in 1..Len(order) |->
            [date |-> d, user_id |-> order[k], username |-> usrs[order[k]],
             total_minutes |-> SUM(Group(order[k])),
             log_count |-> Cardinality(Group(order[k]))]]

\* the rows of the dates of a list, one date after the other
RECURSIVE AdminRowsOfDates(_, _, _)
AdminRowsOfDates(joined, usrs, dates) ==
    IF dates = << >> THEN << >>
    ELSE AdminRowsOfDate(joined, usrs, Head(dates))
            \o AdminRowsOfDates(joined, usrs, Tail(dates))

\* SELECT DATE(tl.logged_at) as date, u.id as user_id, u.username,
\*   SUM(tl.minutes) as total_minutes, COUNT(*) as log_count
\*   FROM time_logs tl JOIN users u ON tl.user_id = u.id
\*   GROUP BY DATE(tl.logged_at), u.id, u.username ORDER BY date DESC, u.username
AdminQuery(logs, usrs) ==
    LET joined == {row \in logs : row.user_id \in DOMAIN usrs}
    IN  AdminRowsOfDates(joined, usrs,
                         OrderDesc({DATE(row.logged_at) : row \in joined}))

\* log.is_auto_logged of a row the query returned: undefined, so falsy, when
\* the query selected no such column
is_auto_logged(log) ==
    IF "is_auto_logged" \in DOMAIN log THEN log.is_auto_logged = 1 ELSE FALSE

\* groupedByDate[log.date] as the forEach creates it
NewDay(date) ==
    [date |-> date, total_minutes |-> 0, total_log_count |-> 0,
     auto_logged_minutes |-> 0, manual_logged_minutes |-> 0, users |-> << >>]

\* one round of the forEach on the group of the row's date
AddToDay(day, log) ==
    [day EXCEPT
       !.total_minutes = @ + log.total_minutes,
       !.total_log_count = @ + log.log_count,
       !.auto_logged_minutes =
           IF is_auto_logged(log) THEN @ + log.total_minutes ELSE @,
       !.manual_logged_minutes =
           IF is_auto_logged(log) THEN @ ELSE @ + log.total_minutes,
       !.users = Append(@, [user_id |-> log.user_id, username |-> log.username,
                            minutes |-> log.total_minutes,
                            log_count |-> log.log_count,
                            is_auto_logged |-> is_auto_logged(log)])]

\* groupedByDate after the first n rows of timeLogsList, its keys in the
\* order of their insertion
RECURSIVE groupedByDate(_, _)
groupedByDate(timeLogsList, n) ==
    IF n = 0 THEN << >>
    ELSE LET g == groupedByDate(timeLogsList, n - 1)
             log == timeLogsList[n]
             at == {k \in 1..Len(g) : g[k].date = log.date}
         IN  IF at = {}
             THEN Append(g, AddToDay(NewDay(log.date), log))
             ELSE [k \in 1..Len(g) |->
                     IF k \in at THEN AddToDay(g[k], log) ELSE g[k]]

\* Object.values(groupedByDate).sort((a, b) => new Date(b.date) - new Date(a.date))
adminResponse(timeLogsList) ==
    LET g == groupedByDate(timeLogsList, Len(timeLogsList))
        order == OrderDesc({g[k].date : k \in 1..Len(g)})
    IN  [k \in 1..Len(order) |->
            g[CHOOSE j \in 1..Len(g) : g[j].date = order[k]]]

\* adminResponse.reduce((sum, day) => sum + day[field], 0)
RECURSIVE Reduce(_, _)
Reduce(days, field) ==
    IF days = << >> THEN 0
    ELSE Head(days)[field] + Reduce(Tail(days), field)

\* the handler taking every requester for an admin
TimeTracked_everyoneAdmin(logs, usrs, userId, isAdmin) ==
    LET days == adminResponse(AdminQuery(logs, usrs))
    IN  IF Len(days) = 0
        THEN [timeLogs |-> << >>, isEmpty |-> TRUE]
        ELSE [timeLogs |-> days, isEmpty |-> FALSE, isAdmin |-> TRUE,
              summary |->
                 [total_days |-> Len(days),
                  total_minutes |-> Reduce(days, "total_minutes"),
                  auto_logged_minutes |-> Reduce(days, "auto_logged_minutes"),
                  manual_logged_minutes |-> Reduce(days, "manual_logged_minutes")]]

\* the body of the response of getTimeTracked, without its message
TimeTracked(logs, usrs, userId, isAdmin) ==
    LET timeLogsList == IF isAdmin THEN AdminQuery(logs, usrs)
                        ELSE SelfQuery(logs, userId)
        days == adminResponse(timeLogsList)
    IN  IF Len(timeLogsList) = 0
        THEN [timeLogs |-> << >>, isEmpty |-> TRUE]
        ELSE IF isAdmin
        THEN [timeLogs |-> days, isEmpty |-> FALSE, isAdmin |-> TRUE,
              summary |->
                 [total_days |-> Len(days),
                  total_minutes |-> Reduce(days, "total_minutes"),
                  auto_logged_minutes |-> Reduce(days, "auto_logged_minutes"),
                  manual_logged_minutes |-> Reduce(days, "manual_logged_minutes")]]
        ELSE [timeLogs |-> timeLogsList, isEmpty |-> FALSE]

\* GET /time-tracking: the one query runs, and its callback builds the
\* response from the rows
GetTimeTracked(userId, isAdmin) ==
    /\ reply' = [user |-> userId, isAdmin |-> isAdmin,
                 body |-> TimeTracked(time_logs, users, userId, isAdmin)]
    /\ UNCHANGED <<tasks, time_logs, reqs, created, users, now, registered, seed>>

\* the response has left the server
ResponseSent ==
    /\ reply # NoReply
    /\ reply' = NoReply
    /\ UNCHANGED <<tasks, time_logs, reqs, created, users, now, registered, seed>>

\* time passes
Tick ==
    /\ now < MaxNow
    /\ now' = now + 1
    /\ UNCHANGED <<tasks, time_logs, reqs, created, users, reply, registered, seed>>

\* users register, are renamed and deleted; the registered users create
\* tasks and log half hours on their own tasks as time passes; reports are
\* asked for by users and admins, one at a time
NextReport ==
    \/ ResponseSent
    \/ \E x \in Registrations : Register(x[1], x[2])
    \/ \E u \in Users, n \in Names : UpdateUser(u, n)
    \/ \E u \in Users : DeleteUser(u)
    \/ Tick
    \/ \E u \in DOMAIN users \cap Users :
          CreateTaskIn(ReportTaskIds, u, 0, "todo")
    \/ \E id \in DOMAIN tasks, m \in ConcMinutes :
          tasks[id].user_id \in DOMAIN users
             /\ TimeArrives(tasks[id].user_id, id, m, MaxReq)
    \/ \E i \in 1..Len(reqs) : TimeInsert(i)
    \/ \E i \in 1..Len(reqs) : TimeUpdate(i)
    \/ reply = NoReply /\ \E u \in DOMAIN users, isAdmin \in BOOLEAN :
          GetTimeTracked(u, isAdmin)

SpecReport == Init /\ [][NextReport]_vars

\* the seed script runs beside the server, where users register, create
\* tasks and log half hours on their own tasks as time passes, and reports
\* are asked for
NextSeed ==
    \/ ResponseSent
    \/ \E x \in Registrations : Register(x[1], x[2])
    \/ Tick
    \/ seedDatabase
    \/ SeedStatement
    \/ \E u \in DOMAIN users \cap Users : CreateTask(u, 0, "todo")
    \/ \E id \in DOMAIN tasks, m \in ConcMinutes :
          tasks[id].user_id \in DOMAIN users
             /\ TimeArrives(tasks[id].user_id, id, m, MaxReq)
    \/ \E i \in 1..Len(reqs) : TimeInsert(i)
    \/ \E i \in 1..Len(reqs) : TimeUpdate(i)
    \/ reply = NoReply /\ \E u \in DOMAIN users, isAdmin \in BOOLEAN :
          GetTimeTracked(u, isAdmin)

SpecSeed == Init /\ [][NextSeed]_vars

\* ------------------------------------------------------------ getDailyPlan
\* the methods of the mockRes that getDailyPlan hands to getTasks
mockRes == {"json"}

\* a GET /daily-plan: replies counts the responses sent to its caller
NewPlanRequest(userId) ==
    [op |-> "plan", user |-> userId, pc |-> "list", code |-> 0, replies |-> 0]

\* res.status(code).json(...) / res.json(...) on the response of the caller
PlanReply(r, code) == [r EXCEPT !.code = code, !.replies = @ + 1, !.pc = "done"]

\* SELECT * FROM tasks WHERE user_id = ? ORDER BY created_at DESC LIMIT ? OFFSET ?
TaskList(tbl, userId) == {id \in DOMAIN tbl : tbl[id].user_id = userId}

\* GET /daily-plan: getDailyPlan builds mockReq and mockRes and calls
\* getTasks, which issues its db.all and returns
PlanArrives(userId, limit) ==
    /\ Len(reqs) < limit
    /\ reqs' = Append(reqs, NewPlanRequest(userId))
    /\ UNCHANGED <<tasks, time_logs, created, users, reply, now, registered, seed>>

\* the callback of db.all in getTasks, acting on mockRes: on an error it
\* calls res.status(500), which mockRes does not have, so the callback throws
\* and nothing is sent; on an empty list mockRes.json answers the caller; on
\* a list of tasks mockRes.json calls generateDailyPlan
PlanListed(i, err) ==
    /\ reqs[i].op = "plan" /\ reqs[i].pc = "list"
    /\ LET r == reqs[i]
           taskList == TaskList(tasks, r.user)
       IN  reqs' = [reqs EXCEPT ![i] =
              IF err
              THEN IF "status" \in mockRes THEN PlanReply(r, 500)
                   ELSE [r EXCEPT !.pc = "thrown"]
              ELSE IF taskList = {} THEN PlanReply(r, 200)
              ELSE [r EXCEPT !.pc = "plan"]]
    /\ UNCHANGED <<tasks, time_logs, created, users, reply, now, registered, seed>>

\* the promise of generateDailyPlan settles: .then answers with the plan,
\* .catch with 500
PlanGenerated(i, rejected) ==
    /\ reqs[i].op = "plan" /\ reqs[i].pc = "plan"
    /\ reqs' = [reqs EXCEPT ![i] =
          IF rejected THEN PlanReply(reqs[i], 500) ELSE PlanReply(reqs[i], 200)]
    /\ UNCHANGED <<tasks, time_logs, created, users, reply, now, registered, seed>>

\* tasks are created and daily plans asked for; the listing query and the
\* plan generation succeed or fail
NextPlan ==
    \/ \E x \in Registrations : Register(x[1], x[2])
    \/ \E u \in DOMAIN users, m \in EstimateInputs, s \in Statuses : CreateTask(u, m, s)
    \/ \E u \in DOMAIN users : PlanArrives(u, MaxReq)
    \/ \E i \in 1..Len(reqs), err \in BOOLEAN : PlanListed(i, err)
    \/ \E i \in 1..Len(reqs), rejected \in BOOLEAN : PlanGenerated(i, rejected)

SpecPlan == Init /\ [][NextPlan]_vars

TypeOK ==
    /\ \A id \in DOMAIN tasks : tasks[id].status \in Statuses
    /\ \A i \in 1..Len(reqs) : reqs[i].pc \in {"select", "insert", "update", "reconcile", "done", "list", "plan", "thrown"}

\* ----------------------------------------------------- vocabulary of claims
Requests == 1..Len(reqs)

AutoLogs(id) == {row \in time_logs : row.task_id = id /\ IsAutoLogged(row)}
ManualLogs(id) == {row \in time_logs : row.task_id = id /\ ~IsAutoLogged(row)}

\* the row a request inserted, if it is in the ledger
RowsOf(i) == {row \in time_logs : row.id = Uuid(i)}

\* the status requests on a task whose status write went through
Transitions(id) ==
    {i \in Requests : reqs[i].op = "status" /\ reqs[i].id = id /\ reqs[i].changes = 1}

\* the status requests on a task that passed validation and found the task
Transitioning(id) ==
    {i \in Requests : /\ reqs[i].op = "status" /\ reqs[i].id = id
                      /\ reqs[i].previousStatus # "none"}

AllDone == \A i \in Requests : reqs[i].pc = "done"

RECURSIVE SumMinutes(_)
SumMinutes(S) ==
    IF S = {} THEN 0
    ELSE LET i == CHOOSE x \in S : TRUE
         IN  reqs[i].minutes + SumMinutes(S \ {i})

\* ------------------------------------------------------------------- C1
\* C1: when the only transition a task has seen took it from todo to done with
\* total_minutes E > 0 and has completed, the ledger holds exactly one auto
\* entry of the task, of E minutes; when a second transition, issued after the
\* first completed, took it back to todo and has completed, it holds none.
C1_DoneCreditsOnceTodoRetracts ==
    \A id \in DOMAIN tasks :
       /\ \A i \in Requests :
             ( /\ Transitioning(id) = {i}
               /\ reqs[i].pc = "done" /\ reqs[i].code = 200
               /\ reqs[i].previousStatus = "todo" /\ reqs[i].status = "done"
               /\ reqs[i].estimatedMinutes > 0 )
             => /\ Cardinality(AutoLogs(id)) = 1
                /\ \A row \in AutoLogs(id) : row.minutes = reqs[i].estimatedMinutes
       /\ \A i, j \in Requests :
             ( /\ Transitioning(id) = {i, j} /\ i \in reqs[j].after
               /\ reqs[i].previousStatus = "todo" /\ reqs[i].status = "done"
               /\ reqs[i].estimatedMinutes > 0
               /\ reqs[j].status = "todo" /\ reqs[j].pc = "done" /\ reqs[j].code = 200 )
             => AutoLogs(id) = {}

\* ------------------------------------------------------------------- C2
\* C2: the previousStatus a transition acts on is the status the task held
\* immediately before that transition's own status write.
C2_PreviousStatusNotStale ==
    \A i \in Requests :
       (reqs[i].op = "status" /\ reqs[i].changes = 1)
       => reqs[i].previousStatus = reqs[i].statusAtWrite

\* ------------------------------------------------------------------- C3
\* C3: once all the requests have completed, a task with total_minutes > 0
\* that was not done and has seen only transitions to done (one or more,
\* concurrent or repeated) has exactly one auto entry.
C3_OneAutoEntryPerDoneEntry ==
    \A id \in DOMAIN tasks :
       ( /\ AllDone
         /\ Transitions(id) # {}
         /\ \A i \in Transitions(id) : reqs[i].status = "done"
         /\ \E i \in Transitions(id) :
               reqs[i].previousStatus # "done" /\ reqs[i].estimatedMinutes > 0 )
       => Cardinality(AutoLogs(id)) = 1

\* ------------------------------------------------------------------- C4
\* C4: after a logTime call has ended, with a result or with an error, the
\* entry it wrote is in the ledger if and only if its minutes were added to
\* the task's total_minutes.
C4_EntryIffIncrement ==
    \A i \in Requests :
       (reqs[i].op = "time" /\ reqs[i].pc = "done")
       => (RowsOf(i) # {} <=> reqs[i].changes = 1)

\* ------------------------------------------------------------------- C6
\* C6: a logTime call on a task that does not exist or is not owned by the
\* requester ends with 404 and has added no entry to the ledger.
C6_NotFoundAddsNothing ==
    \A i \in Requests :
       ( /\ reqs[i].op = "time" /\ reqs[i].pc = "done"
         /\ validateTimeLog(reqs[i].minutes)
         /\ SelectTask(tasks, reqs[i].id, reqs[i].user) = NoRow )
       => (reqs[i].code = 404 /\ RowsOf(i) = {})

\* ------------------------------------------------------------------- C7
\* C7: every entry of the ledger that references a task carries the user id
\* of the owner of that task.
C7_EntriesBelongToOwner ==
    \A row \in time_logs :
       row.task_id \in DOMAIN tasks => row.user_id = tasks[row.task_id].user_id

\* ------------------------------------------------------------------- C5
\* C5: the total_minutes of a task is the value it was created with plus the
\* minutes of every logTime call on it that has ended (two calls of 30 add
\* exactly 60), and every logTime call on it has, once its INSERT has run,
\* exactly one manual entry of its own in the ledger and none before,
\* whatever transitions run at the same time.
C5_NoLostIncrement ==
    \A id \in DOMAIN tasks :
       LET logged == {i \in Requests : /\ reqs[i].op = "time" /\ reqs[i].id = id
                                       /\ reqs[i].pc = "done" /\ reqs[i].code = 200}
           issued == {i \in Requests : reqs[i].op = "time" /\ reqs[i].id = id}
           inserted == {i \in issued : reqs[i].pc # "insert"}
       IN  /\ tasks[id].total_minutes = created[id] + SumMinutes(logged)
           /\ \A i \in issued \ inserted : RowsOf(i) = {}
           /\ \A i \in inserted :
                 /\ Cardinality(RowsOf(i)) = 1
                 /\ \A row \in RowsOf(i) :
                       /\ row \in ManualLogs(id)
                       /\ row.minutes = reqs[i].minutes
           /\ Cardinality(ManualLogs(id)) = Cardinality(inserted)

\* two calls of 30 minutes and a transition that wrote, all on one task, none
\* issued after another had ended; the total grew by 60
C5_Witness ==
    \E id \in DOMAIN tasks : \E i, j, k \in Requests :
       /\ i # j
       /\ reqs[i].op = "time" /\ reqs[j].op = "time" /\ reqs[k].op = "status"
       /\ reqs[i].id = id /\ reqs[j].id = id /\ reqs[k].id = id
       /\ reqs[i].minutes = 30 /\ reqs[j].minutes = 30
       /\ AllDone
       /\ reqs[i].code = 200 /\ reqs[j].code = 200 /\ reqs[k].code = 200
       /\ reqs[i].after = {} /\ reqs[j].after = {} /\ reqs[k].after = {}
       /\ tasks[id].total_minutes = created[id] + 60
       /\ Cardinality(ManualLogs(id)) = 2

\* ------------------------------------------------------------------- C8
\* C8: a status request that ends answers 400 when its status is outside
\* {todo, in_progress, done} and 404 when no task matches its id and requester,
\* and the step that answers 400 or 404 leaves tasks and time_logs as they were.
C8_RejectedTransitionChangesNothing ==
    [][ \A i \in 1..Len(reqs') :
          ( /\ reqs'[i].op = "status" /\ reqs'[i].pc = "done"
            /\ (i > Len(reqs) \/ reqs[i].pc # "done") )
          => LET r == reqs'[i]
             IN  /\ r.status \notin {"todo", "in_progress", "done"} => r.code = 400
                 /\ ( /\ r.status \in {"todo", "in_progress", "done"}
                      /\ SelectTask(tasks, r.id, r.user) = NoRow ) => r.code = 404
                 /\ r.code \in {400, 404} => (tasks' = tasks /\ time_logs' = time_logs)
      ]_vars

\* one request was refused for its status and one for a task of another user
\* that is done and has minutes, and that task and the ledger are untouched
C8_Witness ==
    \E i, j \in Requests : \E id \in DOMAIN tasks :
       /\ reqs[i].op = "status" /\ reqs[i].status = "archived" /\ reqs[i].code = 400
       /\ reqs[j].op = "status" /\ reqs[j].status = "todo" /\ reqs[j].code = 404
       /\ reqs[j].id = id /\ reqs[j].user # tasks[id].user_id
       /\ tasks[id].status = "done" /\ tasks[id].total_minutes > 0
       /\ time_logs = {}

\* ------------------------------------------------------------------- C9
\* C9: a logTime request of 0 or of 1441 minutes is answered 400 in the step it
\* arrives in, which inserts no entry and changes no total_minutes; a request of
\* 1 or of 1440 minutes on a task of the requester is answered 200, its entry is
\* in the ledger and the task's total_minutes grew by its minutes.
C9_MinutesBoundaries ==
    [][ \A i \in 1..Len(reqs') :
          ( /\ reqs'[i].op = "time" /\ reqs'[i].pc = "done"
            /\ (i > Len(reqs) \/ reqs[i].pc # "done") )
          => LET r == reqs'[i]
             IN  /\ r.minutes \in {0, 1441} =>
                       /\ i > Len(reqs) /\ r.code = 400
                       /\ tasks' = tasks /\ time_logs' = time_logs
                 /\ ( /\ r.minutes \in {1, 1440}
                      /\ SelectTask(tasks, r.id, r.user) # NoRow ) =>
                       /\ r.code = 200
                       /\ \E row \in time_logs' :
                             /\ row.id = Uuid(i) /\ row.task_id = r.id
                             /\ row.minutes = r.minutes
                       /\ tasks'[r.id].total_minutes =
                             tasks[r.id].total_minutes + r.minutes
      ]_vars

\* 1440 minutes were logged on an owned task and 1441 were refused
C9_Witness ==
    \E i, j \in Requests : \E id \in DOMAIN tasks :
       /\ reqs[i].op = "time" /\ reqs[i].minutes = 1440 /\ reqs[i].code = 200
       /\ reqs[i].id = id /\ reqs[i].user = tasks[id].user_id
       /\ reqs[j].op = "time" /\ reqs[j].minutes = 1441 /\ reqs[j].code = 400
       /\ reqs[j].id = id /\ reqs[j].user = tasks[id].user_id
       /\ tasks[id].total_minutes = created[id] + 1440
       /\ Cardinality(ManualLogs(id)) = 1

\* ------------------------------------------------------------------ C10
\* C10: when the ledger statement of a transition fails, the status write had
\* gone through, the failing step leaves the tasks table as it is, the caller
\* has the 200 answer, and autoTimeLogged / autoTimeRemoved say which statement
\* was attempted.
C10_ReconcileFailureKeepsTransition ==
    [][ \A i \in Requests :
          (reqs[i].pc = "reconcile" /\ reqs'[i].pc = "done" /\ reqs'[i].reconcileErr)
          => /\ tasks' = tasks
             /\ reqs[i].changes = 1
             /\ reqs[i].code = 200 /\ reqs'[i].code = 200
             /\ reqs'[i].status = reqs[i].status
             /\ reqs'[i].autoTimeLogged = (reqs[i].reconcile = "insert")
             /\ reqs'[i].autoTimeRemoved = (reqs[i].reconcile = "delete")
      ]_vars

\* an INSERT failed for a transition into done and a DELETE failed for the
\* transition out of it; the task holds the status written last
C10_Witness ==
    \E i, j \in Requests : \E id \in DOMAIN tasks :
       /\ reqs[i].id = id /\ reqs[j].id = id /\ i \in reqs[j].after
       /\ reqs[i].pc = "done" /\ reqs[i].reconcile = "insert" /\ reqs[i].reconcileErr
       /\ reqs[j].pc = "done" /\ reqs[j].reconcile = "delete" /\ reqs[j].reconcileErr
       /\ reqs[i].code = 200 /\ reqs[j].code = 200
       /\ reqs[i].autoTimeLogged /\ reqs[j].autoTimeRemoved
       /\ tasks[id].status = reqs[j].status

\* ------------------------------------------------------------------ C11
\* C11: a transition that was answered 200 and has completed reports
\* autoTimeLogged exactly when its INSERT put an auto entry into the ledger,
\* autoTimeRemoved exactly when its DELETE of the auto entries ran, and never
\* both.  (The store of this model never fails transiently.)
C11_FlagsTellWhatHappened ==
    \A i \in Requests :
       (reqs[i].op = "status" /\ reqs[i].pc = "done" /\ reqs[i].code = 200)
       => /\ reqs[i].autoTimeLogged
                <=> (reqs[i].reconcile = "insert" /\ ~reqs[i].reconcileErr)
          /\ reqs[i].autoTimeRemoved
                <=> (reqs[i].reconcile = "delete" /\ ~reqs[i].reconcileErr)
          /\ ~(reqs[i].autoTimeLogged /\ reqs[i].autoTimeRemoved)

\* ------------------------------------------------------------------ C12
\* C12: a transition whose previous and new status are neither (not done ->
\* done with total_minutes > 0) nor (done -> todo or in_progress) issues no
\* statement on time_logs: the step that writes its status ends the request
\* and leaves the ledger as it was.
C12_OtherEdgesLeaveLedger ==
    [][ \A i \in Requests :
          ( /\ reqs[i].op = "status" /\ reqs[i].pc = "update"
            /\ reqs'[i].pc # "update"
            /\ ~( /\ reqs[i].status = "done" /\ reqs[i].previousStatus # "done"
                  /\ reqs[i].estimatedMinutes > 0 )
            /\ ~( /\ reqs[i].status \in {"todo", "in_progress"}
                  /\ reqs[i].previousStatus = "done" ) )
          => /\ reqs'[i].pc = "done"
             /\ reqs'[i].reconcile = "none"
             /\ time_logs' = time_logs
      ]_vars

\* a done -> done retry issued after the first call had ended, and a
\* todo -> done of a task without minutes, both answered 200 with no ledger
\* statement; the ledger is as empty as it was
C12_Witness ==
    \E i, j \in Requests :
       /\ i # j /\ i \in reqs[j].after
       /\ reqs[i].op = "status" /\ reqs[j].op = "status"
       /\ reqs[i].id = reqs[j].id
       /\ reqs[i].status = "done" /\ reqs[i].previousStatus = "todo"
       /\ reqs[i].estimatedMinutes = 0
       /\ reqs[j].status = "done" /\ reqs[j].previousStatus = "done"
       /\ reqs[i].pc = "done" /\ reqs[j].pc = "done"
       /\ reqs[i].code = 200 /\ reqs[j].code = 200
       /\ reqs[i].reconcile = "none" /\ reqs[j].reconcile = "none"
       /\ time_logs = {}

\* ------------------------------------------------------------------ C14
\* C14: every step that changes the status of a task is the status write of
\* a PATCH status request, the one that goes on to the reconciler.
C14_StatusChangesOnlyByStateMachine ==
    [][ \A id \in DOMAIN tasks :
          tasks'[id].status # tasks[id].status
          => \E i \in Requests :
                /\ reqs[i].op = "status" /\ reqs[i].id = id
                /\ reqs[i].pc = "update" /\ reqs'[i].pc # "update"
                /\ reqs'[i].changes = 1
      ]_vars

\* ------------------------------------------------------------------ C15
\* C15: when a transition that wrote done and issued the INSERT of its auto
\* entry has completed, the ledger holds that entry, an auto entry of the
\* task whose minutes are the total_minutes the task had at the moment its
\* status was written.
C15_AutoMinutesAreTotalAtCompletion ==
    \A i \in Requests :
       ( /\ reqs[i].op = "status" /\ reqs[i].pc = "done"
         /\ reqs[i].changes = 1 /\ reqs[i].reconcile = "insert" )
       => \E row \in AutoLogs(reqs[i].id) :
             /\ row.id = Uuid(i)
             /\ row.minutes = reqs[i].totalAtWrite

\* ------------------------------------------------------------------ C16
\* C16: a row leaves the ledger only in the step that runs the DELETE of a
\* transition, and only if it is an auto entry of that transition's task and
\* requester; every manual entry, of any task, stays as it is.
C16_ManualEntriesSurviveTransitions ==
    [][ \A row \in time_logs :
          row \notin time_logs'
          => /\ IsAutoLogged(row)
             /\ \E i \in Requests :
                   /\ reqs[i].op = "status" /\ reqs[i].reconcile = "delete"
                   /\ reqs[i].pc = "reconcile" /\ reqs'[i].pc = "done"
                   /\ row.task_id = reqs[i].id /\ row.user_id = reqs[i].user
      ]_vars

\* a manual entry was logged on a done task, then a transition took the task
\* out of done and its DELETE has run: the manual entry is still there
C16_Witness ==
    \E id \in DOMAIN tasks : \E i, j \in Requests :
       /\ reqs[i].op = "time" /\ reqs[i].id = id /\ reqs[i].code = 200
       /\ reqs[j].op = "status" /\ reqs[j].id = id /\ i \in reqs[j].after
       /\ reqs[j].previousStatus = "done" /\ reqs[j].reconcile = "delete"
       /\ reqs[j].pc = "done" /\ reqs[j].code = 200
       /\ \E row \in ManualLogs(id) :
             /\ row.id = Uuid(i) /\ row.minutes = reqs[i].minutes
             /\ row.user_id = reqs[i].user
       /\ Cardinality(time_logs) = 1

\* ------------------------------------------------------------------ C17
\* C17: the entry of a completed transition into done (the only transition its
\* task has seen) is stored with the auto flag set, and the entry of a logTime
\* call is stored with the flag not set.
C17_EntriesTaggedBySource ==
    /\ \A i \in Requests :
          ( /\ reqs[i].op = "status" /\ reqs[i].reconcile = "insert"
            /\ reqs[i].pc = "done" /\ Transitioning(reqs[i].id) = {i} )
          => \E row \in RowsOf(i) : IsAutoLogged(row)
    /\ \A i \in Requests :
          reqs[i].op = "time" => \A row \in RowsOf(i) : ~IsAutoLogged(row)

\* ------------------------------------------------------------------ C18
\* C18: every entry of the ledger has minutes >= 1 and every task has
\* total_minutes >= 0.
C18_MinutesPositiveTotalsNonNegative ==
    /\ \A row \in time_logs : row.minutes >= 1
    /\ \A id \in DOMAIN tasks : tasks[id].total_minutes >= 0

\* a task created without minutes has taken a logTime call of one minute and
\* refused one of zero minutes
C18_Witness ==
    \E id \in DOMAIN tasks : \E i, j \in Requests :
       /\ created[id] = 0
       /\ reqs[i].op = "time" /\ reqs[i].id = id /\ reqs[i].minutes = 1
       /\ reqs[i].code = 200
       /\ reqs[j].op = "time" /\ reqs[j].id = id /\ reqs[j].minutes = 0
       /\ reqs[j].code = 400
       /\ tasks[id].total_minutes = 1
       /\ \E row \in time_logs : row.id = Uuid(i) /\ row.minutes = 1
       /\ Cardinality(time_logs) = 1

\* ------------------------------------------------------------------ C19
\* C19: the total_minutes of a task changes only in the step that runs the
\* UPDATE of a logTime call on it, and then by exactly that call's minutes; no
\* step of a status transition changes it.
C19_TotalChangesOnlyByLogTime ==
    [][ \A id \in DOMAIN tasks :
          tasks'[id].total_minutes # tasks[id].total_minutes
          => \E i \in Requests :
                /\ reqs[i].op = "time" /\ reqs[i].id = id
                /\ reqs[i].pc = "update" /\ reqs'[i].pc = "done"
                /\ reqs'[i].code = 200
                /\ tasks'[id].total_minutes =
                      tasks[id].total_minutes + reqs[i].minutes
      ]_vars

\* a task with minutes went into done and, by a later call, out of it again;
\* it has the total it was created with
C19_Witness ==
    \E id \in DOMAIN tasks : \E i, j \in Requests :
       /\ reqs[i].op = "status" /\ reqs[j].op = "status"
       /\ reqs[i].id = id /\ reqs[j].id = id /\ i \in reqs[j].after
       /\ reqs[i].previousStatus # "done" /\ reqs[i].status = "done"
       /\ reqs[j].previousStatus = "done" /\ reqs[j].status # "done"
       /\ reqs[i].code = 200 /\ reqs[j].code = 200 /\ AllDone
       /\ created[id] > 0
       /\ tasks[id].total_minutes = created[id]

\* ------------------------------------------------------------------ C20
\* C20: the status of every task is one of todo, in_progress, done in every
\* state; a call that asks for one of the three statuses is not refused when
\* it arrives, whatever the task's status is; when its db.get runs on a task
\* of the caller it goes on to the UPDATE with the status the task has then,
\* whatever that is; and its UPDATE answers 200 and leaves the task in the
\* requested status, whatever status the task has at that moment (done
\* included, so done is neither final nor closed).
C20_EveryEdgeIsOpen ==
    /\ [](\A id \in DOMAIN tasks : tasks[id].status \in Statuses)
    /\ [][ \A i \in DOMAIN reqs' :
             LET r == reqs'[i] IN
             /\ (/\ i \notin DOMAIN reqs /\ r.op = "status"
                 /\ r.status \in Statuses)
                => (r.pc = "select" /\ r.code = 0)
             /\ (/\ i \in DOMAIN reqs /\ r.op = "status"
                 /\ reqs[i].pc = "select" /\ r.pc # "select"
                 /\ r.id \in DOMAIN tasks /\ tasks[r.id].user_id = r.user)
                => (/\ r.pc = "update" /\ r.code = 0
                    /\ r.previousStatus = tasks[r.id].status)
             /\ (/\ i \in DOMAIN reqs /\ r.op = "status"
                 /\ reqs[i].pc = "update" /\ r.pc # "update")
                => (/\ r.code = 200
                    /\ r.statusAtWrite \in Statuses
                    /\ tasks'[r.id].status = r.status)
       ]_vars

\* a task created done was moved to todo and, by a later call, to done again
C20_Witness ==
    \E id \in DOMAIN tasks : \E i, j \in Requests :
       /\ reqs[i].op = "status" /\ reqs[j].op = "status"
       /\ reqs[i].id = id /\ reqs[j].id = id /\ i \in reqs[j].after
       /\ reqs[i].statusAtWrite = "done" /\ reqs[i].status = "todo"
       /\ reqs[j].statusAtWrite = "todo" /\ reqs[j].status = "done"
       /\ reqs[i].code = 200 /\ reqs[j].code = 200 /\ AllDone
       /\ tasks[id].status = "done"

\* ------------------------------------------------ vocabulary of the reports
\* the entries of the ledger logged on a calendar date, and a user's among them
EntriesOn(d) == {row \in time_logs : DATE(row.logged_at) = d}
EntriesOfOn(u, d) == {row \in EntriesOn(d) : row.user_id = u}

\* the calendar dates on which the ledger has an entry, and a user has one
LedgerDates == {DATE(row.logged_at) : row \in time_logs}
DatesOf(u) == {DATE(row.logged_at) : row \in {r \in time_logs : r.user_id = u}}

\* the minutes of a set of entries, added up
RECURSIVE TotalOf(_)
TotalOf(S) ==
    IF S = {} THEN 0
    ELSE LET e == CHOOSE x \in S : TRUE IN e.minutes + TotalOf(S \ {e})

\* a step that answers a report
ReportAnswered == reply' # NoReply /\ reply' # reply

\* r is a self report, an admin report
SelfReport(r) == r.user # "none" /\ ~r.isAdmin
AdminReport(r) == r.user # "none" /\ r.isAdmin

\* the report that is being sent is a self report, an admin report
SelfReply == SelfReport(reply)
AdminReply == AdminReport(reply)

\* ------------------------------------------------------------------ C21
\* what C21 says of a report r, answered on the database as it is
SelfReportGroupsByDate(r) ==
    SelfReport(r) =>
       LET rows == r.body.timeLogs
       IN  /\ {rows[k].date : k \in 1..Len(rows)} = DatesOf(r.user)
           /\ Len(rows) = Cardinality(DatesOf(r.user))
           /\ \A k \in 1..Len(rows) :
                 /\ rows[k].total_minutes =
                       TotalOf(EntriesOfOn(r.user, rows[k].date))
                 /\ rows[k].log_count =
                       Cardinality(EntriesOfOn(r.user, rows[k].date))
           /\ \A k \in 1..(Len(rows) - 1) : rows[k].date > rows[k + 1].date

\* C21: in every step that answers a report, a self report has one row for
\* each calendar date on which its user has an entry and no other row; a row
\* carries the sum of the minutes of all the user's entries of its date and
\* their number; the rows come in descending order of date.
C21_SelfReportGroupsByDate ==
    [][ReportAnswered => SelfReportGroupsByDate(reply')]_vars

\* the database was seeded on day 0, u1 registered and logged time, and the
\* seeded user userId1 logged 30 minutes on day 1: its report starts with day
\* 1, and has the 420 minutes of its 3 seeded entries on day 0
C21_Witness ==
    /\ SelfReply /\ reply.user = userId1
    /\ \E row \in time_logs : row.user_id \in Users
    /\ Cardinality(EntriesOfOn(userId1, 0)) = 3
    /\ Len(reply.body.timeLogs) = 2
    /\ reply.body.timeLogs[1] = [date |-> 1, total_minutes |-> 30, log_count |-> 1]
    /\ reply.body.timeLogs[2] = [date |-> 0, total_minutes |-> 420, log_count |-> 3]
    /\ reply.body = TimeTracked(time_logs, users, reply.user, FALSE)

\* ------------------------------------------------------------------ C22
\* what C22 says of a report r, answered on the database as it is
AdminSplitsAutoAndManual(r) ==
    (AdminReport(r) /\ ~r.body.isEmpty) =>
       LET days == r.body.timeLogs
           Auto(S) == {e \in S : IsAutoLogged(e)}
           Manual(S) == {e \in S : ~IsAutoLogged(e)}
       IN  /\ \A k \in 1..Len(days) :
                 /\ days[k].auto_logged_minutes =
                       TotalOf(Auto(EntriesOn(days[k].date)))
                 /\ days[k].manual_logged_minutes =
                       TotalOf(Manual(EntriesOn(days[k].date)))
           /\ r.body.summary.auto_logged_minutes = TotalOf(Auto(time_logs))
           /\ r.body.summary.manual_logged_minutes = TotalOf(Manual(time_logs))

\* C22: in every step that answers a report, an admin report has, for every
\* date, as auto_logged_minutes the sum of the minutes of the flagged entries
\* of that date and as manual_logged_minutes the sum of the minutes of its
\* unflagged entries, and the summary carries the same two sums over the
\* whole ledger.
C22_AdminSplitsAutoAndManual ==
    [][ReportAnswered => AdminSplitsAutoAndManual(reply')]_vars

\* ------------------------------------------------------------------ C23
\* the field of the first n rows of a report, added up
RECURSIVE FieldTotal(_, _, _)
FieldTotal(days, field, n) ==
    IF n = 0 THEN 0 ELSE days[n][field] + FieldTotal(days, field, n - 1)

\* what C23 says of a report r, answered on the database as it is
SummaryAddsUpRows(r) ==
    (AdminReport(r) /\ ~r.body.isEmpty) =>
       LET days == r.body.timeLogs
           summary == r.body.summary
       IN  /\ summary.total_minutes = FieldTotal(days, "total_minutes", Len(days))
           /\ summary.auto_logged_minutes + summary.manual_logged_minutes
                 = summary.total_minutes
           /\ summary.total_days = Cardinality(LedgerDates)

\* C23: in every step that answers a report, the summary of an admin report
\* adds up its rows: total_minutes is the sum of the rows' total_minutes,
\* auto_logged_minutes and manual_logged_minutes add up to total_minutes, and
\* total_days is the number of calendar dates on which the ledger has an
\* entry.
C23_SummaryAddsUpRows ==
    [][ReportAnswered => SummaryAddsUpRows(reply')]_vars

\* ------------------------------------------------------------------ C25
\* what C25 says of a report r, answered on the database as it is
EmptyIffNothingInScope(r) ==
    r.user # "none" =>
       LET scope == IF r.isAdmin THEN time_logs
                    ELSE {e \in time_logs : e.user_id = r.user}
           rows == r.body.timeLogs
       IN  /\ r.body.isEmpty <=> (scope = {})
           /\ \A e \in scope :
                 \E k \in 1..Len(rows) : rows[k].date = DATE(e.logged_at)

\* C25: in every step that answers a report, the report says isEmpty exactly
\* when the ledger holds no entry in its scope (no entry of the requester for
\* a self report, no entry at all for an admin report), and otherwise has a
\* row for the date of every entry in scope.
C25_EmptyIffNothingInScope ==
    [][ReportAnswered => EmptyIffNothingInScope(reply')]_vars

\* ------------------------------------------------------------------ C26
\* every entry a user other than u can have logged
EntriesOfOthers(u) ==
    {[id |-> 0, task_id |-> t, user_id |-> v, minutes |-> m, logged_at |-> a] :
        t \in ReportTaskIds, v \in Users \ {u}, m \in ConcMinutes, a \in Today..MaxNow}

\* what C26 says of a report r, answered on the database as it is
SelfReportSeesOwnEntriesOnly(r) ==
    SelfReport(r) =>
       LET own == {e \in time_logs : e.user_id = r.user}
           others == EntriesOfOthers(r.user)
       IN  /\ r.body = TimeTracked(own, << >>, r.user, FALSE)
           /\ r.body = TimeTracked(own \cup others, users, r.user, FALSE)

\* C26: in every step that answers a report, a self report is the report of
\* the ledger that holds the user's own entries and nothing else, with no
\* user registered, and the report of the ledger that holds, next to the
\* user's own entries, every entry any other user can have logged: what
\* others logged or deleted does not show.
C26_SelfReportSeesOwnEntriesOnly ==
    [][ReportAnswered => SelfReportSeesOwnEntriesOnly(reply')]_vars

\* u1 asked for its report while u2, with an entry on the same date as u1,
\* had been deleted; the report has u1's date and minutes
C26_Witness ==
    /\ SelfReply /\ reply.user = "u1"
    /\ "u2" \notin DOMAIN users /\ "u1" \in DOMAIN users
    /\ EntriesOfOn("u1", 1) # {} /\ EntriesOfOn("u2", 1) # {}
    /\ ~reply.body.isEmpty
    /\ Len(reply.body.timeLogs) = 1
    /\ reply.body.timeLogs[1].total_minutes = TotalOf(EntriesOfOn("u1", 1))
    /\ reply.body = TimeTracked(time_logs, users, reply.user, FALSE)

\* ------------------------------------------------------------------ C27
\* the field of a user's self report for a date, 0 when it has no such row
SelfField(u, d, field) ==
    LET rows == TimeTracked(time_logs, users, u, FALSE).timeLogs
        at == {k \in 1..Len(rows) : rows[k].date = d}
    IN  IF at = {} THEN 0 ELSE rows[CHOOSE k \in at : TRUE][field]

\* the field of the self reports of a set of users for a date, added up
RECURSIVE SelfFieldTotal(_, _, _)
SelfFieldTotal(S, d, field) ==
    IF S = {} THEN 0
    ELSE LET u == CHOOSE x \in S : TRUE
         IN  SelfField(u, d, field) + SelfFieldTotal(S \ {u}, d, field)

\* what C27 says of a report r, answered on the database as it is
AdminAgreesWithSelfReports(r) ==
    AdminReport(r) =>
       LET days == r.body.timeLogs
           logging == {e.user_id : e \in time_logs}
       IN  \A d \in LedgerDates :
              \E k \in 1..Len(days) :
                 /\ days[k].date = d
                 /\ days[k].total_minutes = SelfFieldTotal(logging, d, "total_minutes")
                 /\ days[k].total_log_count = SelfFieldTotal(logging, d, "log_count")

\* C27: in every step that answers a report, an admin report has, for every
\* date on which the ledger has an entry, a row whose total_minutes and
\* total_log_count are the sums of the total_minutes and log_count that the
\* self reports of the users with entries in the ledger have for that date.
C27_AdminAgreesWithSelfReports ==
    [][ReportAnswered => AdminAgreesWithSelfReports(reply')]_vars

\* ------------------------------------------------------------------ C28
\* the tasks that were created and are deleted
Deleted == DOMAIN created \ DOMAIN tasks

\* C28: a step that deletes a task leaves the ledger as it is.  The entry of
\* every logTime call that was answered 200 is in the ledger, whether its task is deleted or not, and the self report of
\* its user and the admin report count it on its date.  A request on a
\* deleted task that has a valid body is answered 404: a status request in
\* the callback of its db.get, and any status or logTime request whose
\* UPDATE runs after the task was deleted in the callback of that UPDATE.
C28_DeleteRemovesOnlyTheTask ==
    /\ [][ (DOMAIN tasks' # DOMAIN tasks /\ DOMAIN tasks' \subseteq DOMAIN tasks)
           => time_logs' = time_logs ]_vars
    /\ [](\A i \in Requests :
            (reqs[i].op = "time" /\ reqs[i].code = 200)
            => \E row \in time_logs :
                  /\ row.id = Uuid(i) /\ row.task_id = reqs[i].id
                  /\ row.minutes = reqs[i].minutes
                  /\ LET d == DATE(row.logged_at)
                         self == TimeTracked(time_logs, users, row.user_id, FALSE)
                         admin == TimeTracked(time_logs, users, row.user_id, TRUE)
                     IN  /\ \E k \in 1..Len(self.timeLogs) :
                               /\ self.timeLogs[k].date = d
                               /\ self.timeLogs[k].total_minutes
                                     = TotalOf(EntriesOfOn(row.user_id, d))
                         /\ \E k \in 1..Len(admin.timeLogs) :
                               /\ admin.timeLogs[k].date = d
                               /\ admin.timeLogs[k].total_minutes = TotalOf(EntriesOn(d)))
    /\ [][ \A i \in DOMAIN reqs' :
             LET r == reqs'[i] IN
             /\ (/\ i \in DOMAIN reqs /\ r.op = "status"
                 /\ reqs[i].pc = "select" /\ r.pc # "select"
                 /\ r.id \in Deleted)
                => (r.pc = "done" /\ r.code = 404)
             /\ (/\ i \in DOMAIN reqs /\ r.op \in {"status", "time"}
                 /\ reqs[i].pc = "update" /\ r.pc # "update"
                 /\ r.id \in Deleted)
                => (r.pc = "done" /\ r.code = 404)
       ]_vars

\* the owner logged minutes on a task, the task was deleted, and a later
\* valid status request of the owner on it was answered 404; the entry is
\* still the one entry of the ledger
C28_Witness ==
    \E id \in Deleted : \E i, j \in Requests :
       /\ reqs[i].op = "time" /\ reqs[i].id = id /\ reqs[i].code = 200
       /\ reqs[j].op = "status" /\ reqs[j].id = id /\ reqs[j].user = reqs[i].user
       /\ reqs[j].status \in Statuses /\ reqs[j].code = 404
       /\ i \in reqs[j].after
       /\ \E row \in time_logs : row.id = Uuid(i) /\ row.task_id = id
       /\ Cardinality(time_logs) = 1

\* ------------------------------------------------------------------ C29
\* C29: a daily-plan request whose handling has come to its end, with the
\* listing query failed or not and the list empty or not, has sent exactly
\* one response to its caller.
C29_DailyPlanAnswersOnce ==
    \A i \in Requests :
       (reqs[i].op = "plan" /\ reqs[i].pc \in {"done", "thrown"})
       => reqs[i].replies = 1

====
